---- MODULE Spec2Model ----
(***************************************************************************)
(* Model of Vitis/common/src/pipe.c: pipe_init and pipe_start_camera.      *)
(*                                                                         *)
(* The two functions are straight-line sequences of vendor driver calls.   *)
(* Each statement of the source is one action, guarded by the program      *)
(* counter pc.  The status returned by a driver call is an input drawn     *)
(* from Statuses when the call is made.  Every driver call is appended to  *)
(* trace together with its arguments and the status it returned.           *)
(*                                                                         *)
(* Macros of config.h and xstatus.h are kept symbolic (strings); the       *)
(* gamma table size (GAMMA_TABLE_SIZE of config.h) is fixed per build and  *)
(* drawn in Init.                                                          *)
(***************************************************************************)
EXTENDS Integers, Sequences, FiniteSets, TLC

\* ---------------------------------------------------------------- bounds
\* Largest of the small gamma table sizes explored (next to 1024 and 1025).
MaxGammaTableSize == 2

\* ------------------------------------------------------------- constants
XST_SUCCESS == "XST_SUCCESS"
XST_FAILURE == "XST_FAILURE"
\* A status of xstatus.h that is neither XST_SUCCESS nor XST_FAILURE.
XST_DEVICE_NOT_FOUND == "XST_DEVICE_NOT_FOUND"

\* Values an int status returned by a driver can take.
Statuses == {XST_SUCCESS, XST_FAILURE, XST_DEVICE_NOT_FOUND}

\* Marker for a call whose return type is void (or whose result is not a status).
NoStatus == "void"

\* pipe_init / pipe_start_camera have not returned yet.
NoReturn == "none"

\* The null XVprocSs_Config pointer: no configuration.
NULL == [BaseAddress |-> 0, ColorDepth |-> 0, PixPerClock |-> 0]

\* What XVprocSs_LookupConfig reports in trace.
ConfigFound == "found"
ConfigNull == "NULL"

VMODE_WIDTH == "VMODE_WIDTH"
VMODE_HEIGHT == "VMODE_HEIGHT"
VMODE_FRAMERATE == "VMODE_FRAMERATE"
VPROC_WIDTH_OUT == "VPROC_WIDTH_OUT"
VPROC_HEIGHT_OUT == "VPROC_HEIGHT_OUT"
VPROC_FRAMERATE_OUT == "VPROC_FRAMERATE_OUT"
COLOR_FORMAT_ID == "COLOR_FORMAT_ID"
GPIO_CAM_IO0_MASK == "GPIO_CAM_IO0_MASK"
GPIO_CAM_IO1_MASK == "GPIO_CAM_IO1_MASK"

\* Byte offsets of the three channel tables of the gamma LUT core.
GammaChannelOffsets_overlap == <<2048, 2048, 6144>>
GammaChannelOffsets == <<2048, 4096, 6144>>

\* Number of table entries that fit between two channel offsets (0x800 / 2).
GammaChannelCapacity == (4096 - 2048) \div 2

\* GAMMA_TABLE_SIZE values explored: small tables, the largest table that
\* fits a channel, and the first one that does not.
GammaTableSizes ==
    (1..MaxGammaTableSize) \cup {GammaChannelCapacity, GammaChannelCapacity + 1}

\* Exponents of the gamma curve (GAMMA of config.h) explored.
Gammas == {2}

\* Base addresses XV_gamma_lut_Initialize may find for the core.
GammaBaseAddresses == {65536}

\* Cameras rpi_cam_init may detect, each with the bayer phase its sensor uses.
Cameras == {[model |-> "OV5640", bayer_phase |-> "RGGB"],
            [model |-> "IMX219", bayer_phase |-> "BGGR"]}

NoCamera == [model |-> "unknown", bayer_phase |-> "unknown"]

\* Hardware configurations XVprocSs_LookupConfig may return.
VprocConfigs == {[BaseAddress |-> 131072, ColorDepth |-> 8, PixPerClock |-> 1],
                 [BaseAddress |-> 196608, ColorDepth |-> 10, PixPerClock |-> 2]}

\* pipe->Vproc.Config before XVprocSs_CfgInitialize has filled it.
NoConfig == [BaseAddress |-> 0, ColorDepth |-> 0, PixPerClock |-> 0]

NoStream == [VmId |-> "none"]

VARIABLES
    pc,              \* position in pipe_init / pipe_start_camera
    trace,           \* driver calls made so far: [fn, arg, st]
    Status,          \* local int Status of the running function
    retval,          \* value returned by pipe_init
    scRetval,        \* value returned by pipe_start_camera
    IsConnected,     \* pipe->IsConnected
    Camera,          \* pipe->Camera
    iic_id,          \* local u8 iic_id of pipe_init
    VprocSsConfigPtr,\* local XVprocSs_Config *
    VprocConfig,     \* pipe->Vproc.Config
    Stream,          \* local XVidC_VideoStream
    BaseAddress,     \* pipe->GammaLut.Config.BaseAddress
    i,               \* loop index of the gamma table loop
    mem,             \* 16-bit writes made by Xil_Out16 so far: [addr, value]
    GAMMA_TABLE_SIZE,\* config.h
    GAMMA            \* config.h

vars == <<pc, trace, Status, retval, scRetval, IsConnected, Camera, iic_id,
          VprocSsConfigPtr, VprocConfig, Stream, BaseAddress, i, mem,
          GAMMA_TABLE_SIZE, GAMMA>>

\* ---------------------------------------------------------------- helpers
\* One driver call, recorded in call order.
Invoke(fn, arg, st) == trace' = Append(trace, [fn |-> fn, arg |-> arg, st |-> st])

\* Two driver calls made by one statement, in evaluation order.
Invoke2(fn1, arg1, st1, fn2, arg2, st2) ==
    trace' = trace \o <<[fn |-> fn1, arg |-> arg1, st |-> st1],
                        [fn |-> fn2, arg |-> arg2, st |-> st2]>>

\* if (Status != XST_SUCCESS)
NotSuccess(st) == st # XST_SUCCESS

\* if (Status == XST_FAILURE)
IsFailure(st) == st = XST_FAILURE

\* x^n for the integer exponents of Gammas.
RECURSIVE Pow(_, _)
Pow(x, n) == IF n = 0 THEN 1 ELSE x * Pow(x, n - 1)

\* uint16_t value = pow(i / (double)GAMMA_TABLE_SIZE, GAMMA) * (float)GAMMA_TABLE_SIZE
GammaValue(idx, size, gamma) ==
    ((Pow(idx, gamma) * size) \div Pow(size, gamma)) % 65536

\* Xil_Out16(addr, value): one 16-bit bus write, appended to the writes made so far.
Xil_Out16(m, addr, value) == Append(m, [addr |-> addr, value |-> value])

\* XVidC_GetVideoModeId(width, height, framerate, FALSE)
XVidC_GetVideoModeId(w, h, fr) == <<w, h, fr>>

\* The Stream built for XVprocSs_SetVidStreamIn / XVprocSs_SetVidStreamOut.
MakeStream(w, h, fr, cfg) ==
    [VmId          |-> XVidC_GetVideoModeId(w, h, fr),
     ColorFormatId |-> COLOR_FORMAT_ID,
     ColorDepth    |-> cfg.ColorDepth,
     PixPerClk     |-> cfg.PixPerClock]

\* ------------------------------------------------------------------- Init
Init ==
    /\ pc = "init_gpio"
    /\ trace = <<>>
    /\ Status = NoStatus
    /\ retval = NoReturn
    /\ scRetval = NoReturn
    /\ IsConnected \in BOOLEAN
    /\ Camera = NoCamera
    /\ iic_id = NoStatus
    /\ VprocSsConfigPtr = NULL
    /\ VprocConfig = NoConfig
    /\ Stream = NoStream
    /\ BaseAddress = 0
    /\ i = 0
    /\ mem = <<>>
    /\ GAMMA_TABLE_SIZE \in GammaTableSizes
    /\ GAMMA \in Gammas

\* --------------------------------------------------------------- pipe_init
\* return XST_FAILURE / return XST_SUCCESS
Return(v) == /\ retval' = v
             /\ pc' = "init_returned"

\* Variables no statement of pipe_init or pipe_start_camera assigns.
build == <<GAMMA_TABLE_SIZE, GAMMA>>

\* pipe.c:36-40
GpioInitialize_retry ==
    /\ pc = "init_gpio"
    /\ \E st \in Statuses :
        /\ Invoke("XGpio_Initialize", <<"devids->Gpio">>, st)
        /\ Status' = st
        /\ IF NotSuccess(st)
           THEN IF Len(trace) = 0
                THEN pc' = "init_gpio" /\ UNCHANGED retval
                ELSE Return(XST_FAILURE)
           ELSE pc' = "gpio_direction" /\ UNCHANGED retval
    /\ UNCHANGED <<scRetval, IsConnected, Camera, iic_id, VprocSsConfigPtr,
                   VprocConfig, Stream, BaseAddress, i, mem, build>>

GpioInitialize ==
    /\ pc = "init_gpio"
    /\ \E st \in Statuses :
        /\ Invoke("XGpio_Initialize", <<"devids->Gpio">>, st)
        /\ Status' = st
        /\ IF NotSuccess(st)
           THEN Return(XST_FAILURE)
           ELSE pc' = "gpio_direction" /\ UNCHANGED retval
    /\ UNCHANGED <<scRetval, IsConnected, Camera, iic_id, VprocSsConfigPtr,
                   VprocConfig, Stream, BaseAddress, i, mem, build>>

\* pipe.c:43
GpioSetDataDirection ==
    /\ pc = "gpio_direction"
    /\ Invoke("XGpio_SetDataDirection",
              <<1, "~", GPIO_CAM_IO0_MASK, GPIO_CAM_IO1_MASK>>, NoStatus)
    /\ pc' = "gpio_write"
    /\ UNCHANGED <<Status, retval, scRetval, IsConnected, Camera, iic_id,
                   VprocSsConfigPtr, VprocConfig, Stream, BaseAddress, i, mem, build>>

\* pipe.c:45
GpioDiscreteWrite ==
    /\ pc = "gpio_write"
    /\ Invoke("XGpio_DiscreteWrite", <<1, GPIO_CAM_IO0_MASK>>, NoStatus)
    /\ pc' = "init_iic"
    /\ UNCHANGED <<Status, retval, scRetval, IsConnected, Camera, iic_id,
                   VprocSsConfigPtr, VprocConfig, Stream, BaseAddress, i, mem, build>>

\* pipe.c:50-55
IicInit ==
    /\ pc = "init_iic"
    /\ \E st \in Statuses :
        /\ Invoke("IicAxiInit", <<"devids->Iic">>, st)
        /\ Status' = st
        /\ iic_id' = "devids->Iic"
        /\ IF NotSuccess(st)
           THEN Return(XST_FAILURE)
           ELSE pc' = "init_cam" /\ UNCHANGED retval
    /\ UNCHANGED <<scRetval, IsConnected, Camera, VprocSsConfigPtr,
                   VprocConfig, Stream, BaseAddress, i, mem, build>>

\* pipe.c:63-67
CamInit_skipFrmbufWr ==
    /\ pc = "init_cam"
    /\ \E st \in Statuses, cam \in Cameras :
        /\ Invoke("rpi_cam_init", <<iic_id, GPIO_CAM_IO0_MASK>>, st)
        /\ Status' = st
        /\ Camera' = IF st = XST_SUCCESS THEN cam ELSE NoCamera
        /\ IF IsFailure(st)
           THEN /\ IsConnected' = FALSE
                /\ Return(XST_FAILURE)
           ELSE /\ pc' = "init_frmbuf_rd"
                /\ UNCHANGED <<retval, IsConnected>>
    /\ UNCHANGED <<scRetval, iic_id, VprocSsConfigPtr,
                   VprocConfig, Stream, BaseAddress, i, mem, build>>

CamInit ==
    /\ pc = "init_cam"
    /\ \E st \in Statuses, cam \in Cameras :
        /\ Invoke("rpi_cam_init", <<iic_id, GPIO_CAM_IO0_MASK>>, st)
        /\ Status' = st
        /\ Camera' = IF st = XST_SUCCESS THEN cam ELSE NoCamera
        /\ IF IsFailure(st)
           THEN /\ IsConnected' = FALSE
                /\ Return(XST_FAILURE)
           ELSE /\ pc' = "init_frmbuf_wr"
                /\ UNCHANGED <<retval, IsConnected>>
    /\ UNCHANGED <<scRetval, iic_id, VprocSsConfigPtr,
                   VprocConfig, Stream, BaseAddress, i, mem, build>>

\* pipe.c:72-76
FrmbufWrInit ==
    /\ pc = "init_frmbuf_wr"
    /\ \E st \in Statuses :
        /\ Invoke("FrmbufWrInit", <<"devids->FrmbufWr">>, st)
        /\ Status' = st
        /\ IF NotSuccess(st)
           THEN Return(XST_FAILURE)
           ELSE pc' = "init_frmbuf_rd" /\ UNCHANGED retval
    /\ UNCHANGED <<scRetval, IsConnected, Camera, iic_id, VprocSsConfigPtr,
                   VprocConfig, Stream, BaseAddress, i, mem, build>>

\* pipe.c:77-81
FrmbufRdInit ==
    /\ pc = "init_frmbuf_rd"
    /\ \E st \in Statuses :
        /\ Invoke("FrmbufRdInit", <<"devids->FrmbufRd">>, st)
        /\ Status' = st
        /\ IF NotSuccess(st)
           THEN Return(XST_FAILURE)
           ELSE pc' = "init_demosaic" /\ UNCHANGED retval
    /\ UNCHANGED <<scRetval, IsConnected, Camera, iic_id, VprocSsConfigPtr,
                   VprocConfig, Stream, BaseAddress, i, mem, build>>

\* pipe.c:86  (the returned status is discarded)
DemosaicInitialize ==
    /\ pc = "init_demosaic"
    /\ \E st \in Statuses :
        Invoke("XV_demosaic_Initialize", <<"devids->Demosaic">>, st)
    /\ pc' = "demosaic_width"
    /\ UNCHANGED <<Status, retval, scRetval, IsConnected, Camera, iic_id,
                   VprocSsConfigPtr, VprocConfig, Stream, BaseAddress, i, mem, build>>

\* pipe.c:87
DemosaicSetWidth ==
    /\ pc = "demosaic_width"
    /\ Invoke("XV_demosaic_Set_HwReg_width", <<VMODE_WIDTH>>, NoStatus)
    /\ pc' = "demosaic_height"
    /\ UNCHANGED <<Status, retval, scRetval, IsConnected, Camera, iic_id,
                   VprocSsConfigPtr, VprocConfig, Stream, BaseAddress, i, mem, build>>

\* pipe.c:88
DemosaicSetHeight ==
    /\ pc = "demosaic_height"
    /\ Invoke("XV_demosaic_Set_HwReg_height", <<VMODE_HEIGHT>>, NoStatus)
    /\ pc' = "demosaic_bayer"
    /\ UNCHANGED <<Status, retval, scRetval, IsConnected, Camera, iic_id,
                   VprocSsConfigPtr, VprocConfig, Stream, BaseAddress, i, mem, build>>

\* pipe.c:89  (rpi_cam_bayer_phase is evaluated first, as the argument)
DemosaicSetBayerPhase ==
    /\ pc = "demosaic_bayer"
    /\ Invoke2("rpi_cam_bayer_phase", <<Camera.model>>, NoStatus,
               "XV_demosaic_Set_HwReg_bayer_phase", <<Camera.bayer_phase>>, NoStatus)
    /\ pc' = "demosaic_autorestart"
    /\ UNCHANGED <<Status, retval, scRetval, IsConnected, Camera, iic_id,
                   VprocSsConfigPtr, VprocConfig, Stream, BaseAddress, i, mem, build>>

\* pipe.c:90
DemosaicEnableAutoRestart ==
    /\ pc = "demosaic_autorestart"
    /\ Invoke("XV_demosaic_EnableAutoRestart", <<>>, NoStatus)
    /\ pc' = "demosaic_start"
    /\ UNCHANGED <<Status, retval, scRetval, IsConnected, Camera, iic_id,
                   VprocSsConfigPtr, VprocConfig, Stream, BaseAddress, i, mem, build>>

\* pipe.c:91
DemosaicStart ==
    /\ pc = "demosaic_start"
    /\ Invoke("XV_demosaic_Start", <<>>, NoStatus)
    /\ pc' = "init_gamma"
    /\ UNCHANGED <<Status, retval, scRetval, IsConnected, Camera, iic_id,
                   VprocSsConfigPtr, VprocConfig, Stream, BaseAddress, i, mem, build>>

\* pipe.c:96-100
GammaLutInitialize ==
    /\ pc = "init_gamma"
    /\ \E st \in Statuses, base \in GammaBaseAddresses :
        /\ Invoke("XV_gamma_lut_Initialize", <<"devids->GammaLut">>, st)
        /\ Status' = st
        /\ BaseAddress' = IF st = XST_SUCCESS THEN base ELSE BaseAddress
        /\ IF NotSuccess(st)
           THEN Return(XST_FAILURE)
           ELSE pc' = "gamma_width" /\ UNCHANGED retval
    /\ UNCHANGED <<scRetval, IsConnected, Camera, iic_id, VprocSsConfigPtr,
                   VprocConfig, Stream, i, mem, build>>

\* pipe.c:101
GammaLutSetWidth ==
    /\ pc = "gamma_width"
    /\ Invoke("XV_gamma_lut_Set_HwReg_width", <<VMODE_WIDTH>>, NoStatus)
    /\ pc' = "gamma_height"
    /\ UNCHANGED <<Status, retval, scRetval, IsConnected, Camera, iic_id,
                   VprocSsConfigPtr, VprocConfig, Stream, BaseAddress, i, mem, build>>

\* pipe.c:102
GammaLutSetHeight ==
    /\ pc = "gamma_height"
    /\ Invoke("XV_gamma_lut_Set_HwReg_height", <<VMODE_HEIGHT>>, NoStatus)
    /\ pc' = "gamma_format"
    /\ UNCHANGED <<Status, retval, scRetval, IsConnected, Camera, iic_id,
                   VprocSsConfigPtr, VprocConfig, Stream, BaseAddress, i, mem, build>>

\* pipe.c:103-104  (the loop initialiser uint32_t i = 0 follows)
GammaLutSetVideoFormat ==
    /\ pc = "gamma_format"
    /\ Invoke("XV_gamma_lut_Set_HwReg_video_format", <<0>>, NoStatus)
    /\ i' = 0
    /\ pc' = "gamma_loop"
    /\ UNCHANGED <<Status, retval, scRetval, IsConnected, Camera, iic_id,
                   VprocSsConfigPtr, VprocConfig, Stream, BaseAddress, mem, build>>

\* pipe.c:105-110  one iteration: three Xil_Out16 of the same value, then i++
GammaLoopBody ==
    /\ pc = "gamma_loop"
    /\ i < GAMMA_TABLE_SIZE
    /\ LET value == GammaValue(i, GAMMA_TABLE_SIZE, GAMMA)
           m1 == Xil_Out16(mem, BaseAddress + GammaChannelOffsets[1] + i * 2, value)
           m2 == Xil_Out16(m1, BaseAddress + GammaChannelOffsets[2] + i * 2, value)
           m3 == Xil_Out16(m2, BaseAddress + GammaChannelOffsets[3] + i * 2, value)
       IN  mem' = m3
    /\ i' = i + 1
    /\ UNCHANGED <<pc, trace, Status, retval, scRetval, IsConnected, Camera, iic_id,
                   VprocSsConfigPtr, VprocConfig, Stream, BaseAddress, build>>

\* pipe.c:104  loop exit: i < GAMMA_TABLE_SIZE is false
GammaLoopExit ==
    /\ pc = "gamma_loop"
    /\ ~(i < GAMMA_TABLE_SIZE)
    /\ pc' = "gamma_start"
    /\ UNCHANGED <<trace, Status, retval, scRetval, IsConnected, Camera, iic_id,
                   VprocSsConfigPtr, VprocConfig, Stream, BaseAddress, i, mem, build>>

\* pipe.c:111
GammaLutStart ==
    /\ pc = "gamma_start"
    /\ Invoke("XV_gamma_lut_Start", <<>>, NoStatus)
    /\ pc' = "gamma_autorestart"
    /\ UNCHANGED <<Status, retval, scRetval, IsConnected, Camera, iic_id,
                   VprocSsConfigPtr, VprocConfig, Stream, BaseAddress, i, mem, build>>

\* pipe.c:112
GammaLutEnableAutoRestart ==
    /\ pc = "gamma_autorestart"
    /\ Invoke("XV_gamma_lut_EnableAutoRestart", <<>>, NoStatus)
    /\ pc' = "vproc_lookup"
    /\ UNCHANGED <<Status, retval, scRetval, IsConnected, Camera, iic_id,
                   VprocSsConfigPtr, VprocConfig, Stream, BaseAddress, i, mem, build>>

\* pipe.c:117-121
VprocLookupConfig ==
    /\ pc = "vproc_lookup"
    /\ \E cfg \in VprocConfigs \cup {NULL} :
        /\ Invoke("XVprocSs_LookupConfig", <<"devids->Vproc">>,
                  IF cfg = NULL THEN ConfigNull ELSE ConfigFound)
        /\ VprocSsConfigPtr' = cfg
        /\ IF cfg = NULL
           THEN Return(XST_FAILURE)
           ELSE pc' = "vproc_logreset" /\ UNCHANGED retval
    /\ UNCHANGED <<Status, scRetval, IsConnected, Camera, iic_id,
                   VprocConfig, Stream, BaseAddress, i, mem, build>>

\* pipe.c:123
VprocLogReset ==
    /\ pc = "vproc_logreset"
    /\ Invoke("XVprocSs_LogReset", <<>>, NoStatus)
    /\ pc' = "vproc_cfginit"
    /\ UNCHANGED <<Status, retval, scRetval, IsConnected, Camera, iic_id,
                   VprocSsConfigPtr, VprocConfig, Stream, BaseAddress, i, mem, build>>

\* pipe.c:124-130  (on success the driver copies the configuration into pipe->Vproc.Config)
VprocCfgInitialize ==
    /\ pc = "vproc_cfginit"
    /\ \E st \in Statuses :
        /\ Invoke("XVprocSs_CfgInitialize",
                  <<VprocSsConfigPtr, VprocSsConfigPtr.BaseAddress>>, st)
        /\ Status' = st
        /\ VprocConfig' = IF st = XST_SUCCESS THEN VprocSsConfigPtr ELSE VprocConfig
        /\ IF NotSuccess(st)
           THEN Return(XST_FAILURE)
           ELSE pc' = "vproc_stream_in" /\ UNCHANGED retval
    /\ UNCHANGED <<scRetval, IsConnected, Camera, iic_id, VprocSsConfigPtr,
                   Stream, BaseAddress, i, mem, build>>

\* pipe.c:133-142
VprocSetVidStreamIn ==
    /\ pc = "vproc_stream_in"
    /\ Stream' = MakeStream(VMODE_WIDTH, VMODE_HEIGHT, VMODE_FRAMERATE, VprocConfig)
    /\ Invoke("XVprocSs_SetVidStreamIn", Stream', NoStatus)
    /\ pc' = "vproc_stream_out"
    /\ UNCHANGED <<Status, retval, scRetval, IsConnected, Camera, iic_id,
                   VprocSsConfigPtr, VprocConfig, BaseAddress, i, mem, build>>

\* pipe.c:145-154
VprocSetVidStreamOut_in ==
    /\ pc = "vproc_stream_out"
    /\ Stream' = MakeStream(VMODE_WIDTH, VMODE_HEIGHT, VMODE_FRAMERATE, VprocConfig)
    /\ Invoke("XVprocSs_SetVidStreamOut", Stream', NoStatus)
    /\ pc' = "vproc_setconfig"
    /\ UNCHANGED <<Status, retval, scRetval, IsConnected, Camera, iic_id,
                   VprocSsConfigPtr, VprocConfig, BaseAddress, i, mem, build>>

VprocSetVidStreamOut ==
    /\ pc = "vproc_stream_out"
    /\ Stream' = MakeStream(VPROC_WIDTH_OUT, VPROC_HEIGHT_OUT, VPROC_FRAMERATE_OUT,
                            VprocConfig)
    /\ Invoke("XVprocSs_SetVidStreamOut", Stream', NoStatus)
    /\ pc' = "vproc_setconfig"
    /\ UNCHANGED <<Status, retval, scRetval, IsConnected, Camera, iic_id,
                   VprocSsConfigPtr, VprocConfig, BaseAddress, i, mem, build>>

\* pipe.c:157  (Status is assigned and never tested)
VprocSetSubsystemConfig ==
    /\ pc = "vproc_setconfig"
    /\ \E st \in Statuses :
        /\ Invoke("XVprocSs_SetSubsystemConfig", <<>>, st)
        /\ Status' = st
    /\ pc' = "set_connected"
    /\ UNCHANGED <<retval, scRetval, IsConnected, Camera, iic_id,
                   VprocSsConfigPtr, VprocConfig, Stream, BaseAddress, i, mem, build>>

\* pipe.c:159-161
SetConnectedAndReturn ==
    /\ pc = "set_connected"
    /\ IsConnected' = TRUE
    /\ Return(XST_SUCCESS)
    /\ UNCHANGED <<trace, Status, scRetval, Camera, iic_id,
                   VprocSsConfigPtr, VprocConfig, Stream, BaseAddress, i, mem, build>>

\* -------------------------------------------------------- pipe_start_camera
\* The caller enters pipe_start_camera after pipe_init has returned.
\* pipe.c:164-166
StartCameraEnter ==
    /\ pc = "init_returned"
    /\ pc' = "sc_config"
    /\ UNCHANGED <<trace, Status, retval, scRetval, IsConnected, Camera, iic_id,
                   VprocSsConfigPtr, VprocConfig, Stream, BaseAddress, i, mem, build>>

\* pipe.c:169
StartCameraConfig_skipFrmbuf ==
    /\ pc = "sc_config"
    /\ \E st \in Statuses :
        /\ Invoke("rpi_cam_config", <<Camera.model>>, st)
        /\ Status' = st
    /\ pc' = "sc_return"
    /\ UNCHANGED <<retval, scRetval, IsConnected, Camera, iic_id,
                   VprocSsConfigPtr, VprocConfig, Stream, BaseAddress, i, mem, build>>

StartCameraConfig ==
    /\ pc = "sc_config"
    /\ \E st \in Statuses :
        /\ Invoke("rpi_cam_config", <<Camera.model>>, st)
        /\ Status' = st
    /\ pc' = "sc_frmbuf"
    /\ UNCHANGED <<retval, scRetval, IsConnected, Camera, iic_id,
                   VprocSsConfigPtr, VprocConfig, Stream, BaseAddress, i, mem, build>>

\* pipe.c:171
StartCameraFrmbufStart ==
    /\ pc = "sc_frmbuf"
    /\ \E st \in Statuses :
        /\ Invoke("FrmbufStart", <<>>, st)
        /\ Status' = st
    /\ pc' = "sc_return"
    /\ UNCHANGED <<retval, scRetval, IsConnected, Camera, iic_id,
                   VprocSsConfigPtr, VprocConfig, Stream, BaseAddress, i, mem, build>>

\* pipe.c:172
StartCameraReturn ==
    /\ pc = "sc_return"
    /\ scRetval' = Status
    /\ pc' = "sc_returned"
    /\ UNCHANGED <<trace, Status, retval, IsConnected, Camera, iic_id,
                   VprocSsConfigPtr, VprocConfig, Stream, BaseAddress, i, mem, build>>

\* ---------------------------------------------------------- specification
Next ==
    \/ GpioInitialize
    \/ GpioSetDataDirection
    \/ GpioDiscreteWrite
    \/ IicInit
    \/ CamInit
    \/ FrmbufWrInit
    \/ FrmbufRdInit
    \/ DemosaicInitialize
    \/ DemosaicSetWidth
    \/ DemosaicSetHeight
    \/ DemosaicSetBayerPhase
    \/ DemosaicEnableAutoRestart
    \/ DemosaicStart
    \/ GammaLutInitialize
    \/ GammaLutSetWidth
    \/ GammaLutSetHeight
    \/ GammaLutSetVideoFormat
    \/ GammaLoopBody
    \/ GammaLoopExit
    \/ GammaLutStart
    \/ GammaLutEnableAutoRestart
    \/ VprocLookupConfig
    \/ VprocLogReset
    \/ VprocCfgInitialize
    \/ VprocSetVidStreamIn
    \/ VprocSetVidStreamOut
    \/ VprocSetSubsystemConfig
    \/ SetConnectedAndReturn
    \/ StartCameraEnter
    \/ StartCameraConfig
    \/ StartCameraFrmbufStart
    \/ StartCameraReturn

Spec == Init /\ [][Next]_vars

\* A statement of a function that has been entered and has not returned.
Running == pc \notin {"init_returned", "sc_returned"} /\ Next

\* The processor keeps executing the function it is in (single thread, no
\* blocking statement in pipe.c); whether the caller goes on to call
\* pipe_start_camera is left open.
FairSpec == Spec /\ WF_vars(Running)

\* ------------------------------------------------------- reading the trace
\* The driver entry points of pipe_init that report an outcome, in source order.
InitSteps == <<"XGpio_Initialize", "IicAxiInit", "rpi_cam_init", "FrmbufWrInit",
               "FrmbufRdInit", "XV_demosaic_Initialize", "XV_gamma_lut_Initialize",
               "XVprocSs_LookupConfig", "XVprocSs_CfgInitialize",
               "XVprocSs_SetSubsystemConfig">>

InitStepNames == {InitSteps[n] : n \in DOMAIN InitSteps}

\* The driver entry points of pipe_start_camera.
StartCameraNames == {"rpi_cam_config", "FrmbufStart"}

\* Positions of the calls of fn in trace.
Calls(fn) == {k \in DOMAIN trace : trace[k].fn = fn}

Called(fn) == Calls(fn) # {}

Count(fn) == Cardinality(Calls(fn))

\* Every call of fn1 so far came before every call of fn2.
Before(fn1, fn2) == \A k1 \in Calls(fn1), k2 \in Calls(fn2) : k1 < k2

\* fn2 has been called only if fn1 was called earlier.
OnlyAfter(fn1, fn2) == Called(fn2) => (Called(fn1) /\ Before(fn1, fn2))

\* The call recorded at position k reported success.
StepOk(k) ==
    IF trace[k].fn = "XVprocSs_LookupConfig"
    THEN trace[k].st = ConfigFound
    ELSE trace[k].st = XST_SUCCESS

\* Positions of the pipe_init calls that report an outcome.
InitStepCalls == {k \in DOMAIN trace : trace[k].fn \in InitStepNames}

\* Positions of all calls made by pipe_init.
InitCalls == {k \in DOMAIN trace : trace[k].fn \notin StartCameraNames}

\* The calls made by pipe_start_camera, in order.
StartCameraTrace == SelectSeq(trace, LAMBDA e : e.fn \in StartCameraNames)

InitReturned == retval # NoReturn

StartCameraReturned == scRetval # NoReturn

\* ------------------------------------------------------------------ claims

\* C1: the initialization entry points of pipe_init are invoked in the order
\* GPIO, I2C, camera, frame buffer write, frame buffer read, demosaic, gamma
\* LUT, video processing subsystem (lookup, cfg-initialize, set-config): a
\* step is invoked only after every step that precedes it in this order.
C1_InitOrder ==
    \A a, b \in DOMAIN InitSteps :
        a < b => OnlyAfter(InitSteps[a], InitSteps[b])

\* C1 witness: a run of pipe_init that invoked all ten steps.
C1_Witness ==
    /\ InitReturned
    /\ \A n \in DOMAIN InitSteps : Called(InitSteps[n])

\* C2: pipe_init returns XST_SUCCESS only if every initialization step it
\* performed reported success (a non-NULL config for XVprocSs_LookupConfig).
C2_SuccessOnlyIfAllSucceeded ==
    retval = XST_SUCCESS => \A k \in InitStepCalls : StepOk(k)

\* C3: once a step of pipe_init reports a non-success status, pipe_init makes
\* no later driver call and no later register write.
C3_EarlyReturn ==
    \A k \in InitStepCalls :
        ~StepOk(k) => /\ \A l \in InitCalls : l <= k
                      /\ ((\A g \in Calls("XV_gamma_lut_Initialize") : k <= g)
                             => mem = <<>>)

\* C4: pipe_start_camera invokes rpi_cam_config exactly once, then FrmbufStart
\* exactly once, and then returns.
C4_StartCameraSequence ==
    /\ [](/\ Count("rpi_cam_config") <= 1
          /\ Count("FrmbufStart") <= 1
          /\ OnlyAfter("rpi_cam_config", "FrmbufStart")
          /\ (StartCameraReturned =>
                /\ Len(StartCameraTrace) = 2
                /\ StartCameraTrace[1].fn = "rpi_cam_config"
                /\ StartCameraTrace[2].fn = "FrmbufStart"))
    /\ ((pc = "sc_config") ~> StartCameraReturned)

\* C4 witness: pipe_start_camera has returned.
C4_Witness ==
    /\ StartCameraReturned
    /\ Called("rpi_cam_config")
    /\ Called("FrmbufStart")

\* C5: the value returned by pipe_start_camera is a success status only if
\* both rpi_cam_config and FrmbufStart returned success.
C5_StartCameraForwardsStatus ==
    scRetval = XST_SUCCESS =>
        \A k \in DOMAIN StartCameraTrace : StartCameraTrace[k].st = XST_SUCCESS

\* C6: within one call of pipe_init each initialization entry point is
\* invoked at most once, whatever the statuses, and pipe_init returns.
C6_NoRetryAndTerminates ==
    /\ [](\A n \in DOMAIN InitSteps : Count(InitSteps[n]) <= 1)
    /\ <>InitReturned

\* C6 witness: pipe_init has returned after a step failed, and that step was
\* invoked once.
C6_Witness ==
    /\ retval = XST_FAILURE
    /\ \E k \in InitStepCalls : ~StepOk(k) /\ Count(trace[k].fn) = 1

\* The stream pipe_init passes to XVprocSs_SetVidStreamIn.
ExpectedStreamIn ==
    [VmId          |-> XVidC_GetVideoModeId(VMODE_WIDTH, VMODE_HEIGHT, VMODE_FRAMERATE),
     ColorFormatId |-> COLOR_FORMAT_ID,
     ColorDepth    |-> VprocConfig.ColorDepth,
     PixPerClk     |-> VprocConfig.PixPerClock]

\* The stream pipe_init passes to XVprocSs_SetVidStreamOut.
ExpectedStreamOut ==
    [VmId          |-> XVidC_GetVideoModeId(VPROC_WIDTH_OUT, VPROC_HEIGHT_OUT,
                                            VPROC_FRAMERATE_OUT),
     ColorFormatId |-> COLOR_FORMAT_ID,
     ColorDepth    |-> VprocConfig.ColorDepth,
     PixPerClk     |-> VprocConfig.PixPerClock]

\* C7: XVprocSs_SetVidStreamIn is called once with the mode of (VMODE_WIDTH,
\* VMODE_HEIGHT, VMODE_FRAMERATE), then XVprocSs_SetVidStreamOut once with the
\* mode of (VPROC_WIDTH_OUT, VPROC_HEIGHT_OUT, VPROC_FRAMERATE_OUT), both with
\* COLOR_FORMAT_ID and the color depth and pixels per clock of the subsystem
\* configuration, and only then XVprocSs_SetSubsystemConfig; all three only
\* after XVprocSs_CfgInitialize returned success; the streams are the same
\* whatever camera was found and whatever status the earlier steps returned.
C7_FixedStreams ==
    /\ Count("XVprocSs_SetVidStreamIn") <= 1
    /\ Count("XVprocSs_SetVidStreamOut") <= 1
    /\ OnlyAfter("XVprocSs_CfgInitialize", "XVprocSs_SetVidStreamIn")
    /\ OnlyAfter("XVprocSs_SetVidStreamIn", "XVprocSs_SetVidStreamOut")
    /\ OnlyAfter("XVprocSs_SetVidStreamOut", "XVprocSs_SetSubsystemConfig")
    /\ Called("XVprocSs_SetVidStreamIn") =>
            \A k \in Calls("XVprocSs_CfgInitialize") : trace[k].st = XST_SUCCESS
    /\ \A k \in Calls("XVprocSs_SetVidStreamIn") : trace[k].arg = ExpectedStreamIn
    /\ \A k \in Calls("XVprocSs_SetVidStreamOut") : trace[k].arg = ExpectedStreamOut

\* C7 witness: the subsystem was configured although the camera was not
\* identified and XV_demosaic_Initialize did not succeed.
C7_Witness ==
    /\ Called("XVprocSs_SetSubsystemConfig")
    /\ Camera = NoCamera
    /\ \E k \in Calls("XV_demosaic_Initialize") : trace[k].st # XST_SUCCESS

\* C8: after pipe_init returns, pipe->IsConnected is TRUE if and only if
\* pipe_init returned XST_SUCCESS, whatever IsConnected was before the call.
C8_ConnectedIffSuccess ==
    InitReturned => (IsConnected <=> retval = XST_SUCCESS)

\* The addresses of the 16-bit writes made so far.
WrittenAddresses == {mem[k].addr : k \in DOMAIN mem}

\* The writes made so far to address a.
WritesTo(a) == {k \in DOMAIN mem : mem[k].addr = a}

\* The bytes a table of GAMMA_TABLE_SIZE 16-bit entries at byte offset off covers.
ChannelBytes(off) ==
    (BaseAddress + off)..(BaseAddress + off + 2 * GAMMA_TABLE_SIZE - 1)

\* C9: when XV_gamma_lut_Initialize succeeds and GAMMA_TABLE_SIZE <= 1024,
\* every index i < GAMMA_TABLE_SIZE gets exactly one 16-bit write at each of
\* BaseAddress+0x800+2i, BaseAddress+0x1000+2i and BaseAddress+0x1800+2i, the
\* three with the same value; the three address ranges are pairwise disjoint;
\* XV_gamma_lut_Start is invoked only after all 3*GAMMA_TABLE_SIZE writes.
\* No write is made unless XV_gamma_lut_Initialize succeeded.
C9_GammaTable ==
    /\ mem # <<>> =>
         /\ Called("XV_gamma_lut_Initialize")
         /\ \A k \in Calls("XV_gamma_lut_Initialize") : trace[k].st = XST_SUCCESS
    /\ pc = "gamma_loop" => Len(mem) = 3 * i
    /\ (GAMMA_TABLE_SIZE <= 1024 /\ Called("XV_gamma_lut_Start")) =>
         /\ Len(mem) = 3 * GAMMA_TABLE_SIZE
         /\ Cardinality(WrittenAddresses) = 3 * GAMMA_TABLE_SIZE
         /\ \A idx \in 0..(GAMMA_TABLE_SIZE - 1) :
              /\ mem[3 * idx + 1].addr = BaseAddress + 2048 + 2 * idx
              /\ mem[3 * idx + 2].addr = BaseAddress + 4096 + 2 * idx
              /\ mem[3 * idx + 3].addr = BaseAddress + 6144 + 2 * idx
              /\ mem[3 * idx + 1].value \in 0..65535
              /\ mem[3 * idx + 2].value = mem[3 * idx + 1].value
              /\ mem[3 * idx + 3].value = mem[3 * idx + 1].value
         /\ ChannelBytes(2048) \cap ChannelBytes(4096) = {}
         /\ ChannelBytes(2048) \cap ChannelBytes(6144) = {}
         /\ ChannelBytes(4096) \cap ChannelBytes(6144) = {}

\* C9 witness: the gamma LUT core was started after a full table of 1024
\* entries per channel was loaded.
C9_Witness ==
    /\ GAMMA_TABLE_SIZE = 1024
    /\ Called("XV_gamma_lut_Start")
    /\ Len(mem) = 3 * 1024

\* A table larger than 1024 entries runs into the next channel: the first
\* address of the second channel is written twice.
GammaOverlapBeyondCapacity ==
    (GAMMA_TABLE_SIZE > 1024 /\ Called("XV_gamma_lut_Start"))
        => Cardinality(WritesTo(BaseAddress + 4096)) = 2

\* C10: XV_demosaic_Start is invoked only after the demosaic width, height and
\* bayer phase registers were written; rpi_cam_bayer_phase only after
\* rpi_cam_init did not fail; XV_gamma_lut_Start only after the gamma width,
\* height and video format registers were written; neither core is started
\* when an earlier step failed.
C10_ConfigureBeforeStart ==
    /\ OnlyAfter("XV_demosaic_Set_HwReg_width", "XV_demosaic_Start")
    /\ OnlyAfter("XV_demosaic_Set_HwReg_height", "XV_demosaic_Start")
    /\ OnlyAfter("XV_demosaic_Set_HwReg_bayer_phase", "XV_demosaic_Start")
    /\ OnlyAfter("rpi_cam_init", "rpi_cam_bayer_phase")
    /\ Called("rpi_cam_bayer_phase") =>
            \A k \in Calls("rpi_cam_init") : trace[k].st # XST_FAILURE
    /\ OnlyAfter("XV_gamma_lut_Set_HwReg_width", "XV_gamma_lut_Start")
    /\ OnlyAfter("XV_gamma_lut_Set_HwReg_height", "XV_gamma_lut_Start")
    /\ OnlyAfter("XV_gamma_lut_Set_HwReg_video_format", "XV_gamma_lut_Start")
    /\ \A s \in Calls("XV_demosaic_Start") \cup Calls("XV_gamma_lut_Start") :
            \A k \in InitStepCalls : k < s => StepOk(k)
====
